---- MODULE Spec2Model ----
(***************************************************************************)
(* Model of the recipe feasibility engine of "mafa's kitchen"              *)
(* (chatbot.py) and of the database collaborators it reads (app.py).       *)
(*                                                                         *)
(* A Python str is a sequence of one-character strings.  A Python float is *)
(* an IEEE-754 double, kept exactly as a natural number of units of 2^-72  *)
(* (every double between 2^-20 and 2^40 that the model meets is a whole    *)
(* number of such units); naturals are little-endian sequences of limbs in *)
(* base 2^12, because products of 53-bit significands do not fit a machine *)
(* integer.  Float operations round to 53 significant bits, ties to even.  *)
(***************************************************************************)
EXTENDS Integers, Sequences, FiniteSets, TLC

VARIABLES
    pc,         \* position of the call / request being modelled
    arg,        \* argument(s) of the pure function under check
    ret,        \* its result
    db,         \* the MySQL tables: ingredients, recipes, recipe_ingredients
    loader,     \* position of a load_structured_recipes_into_db process
    chatv,      \* locals of the running chat() request
    fetchLog    \* which function issued which query during the request

vars == <<pc, arg, ret, db, loader, chatv, fetchLog>>

-----------------------------------------------------------------------------
(* Python str helpers                                                      *)

UpperChars == <<"A","B","C","D","E","F","G","H","I","J","K","L","M",
                "N","O","P","Q","R","S","T","U","V","W","X","Y","Z">>
LowerChars == <<"a","b","c","d","e","f","g","h","i","j","k","l","m",
                "n","o","p","q","r","s","t","u","v","w","x","y","z">>
DigitChars == <<"0","1","2","3","4","5","6","7","8","9">>
Whitespace == {" ", "\t", "\n"}

UpperSet == {UpperChars[i] : i \in 1..26}
DigitSet == {DigitChars[i] : i \in 1..10}

LowerChar(c) ==
    IF c \in UpperSet
    THEN LowerChars[CHOOSE i \in 1..26 : UpperChars[i] = c]
    ELSE c

\* str.lower()
lower(s) == [i \in 1..Len(s) |-> LowerChar(s[i])]

RECURSIVE lstrip(_)
lstrip(s) == IF s # <<>> /\ Head(s) \in Whitespace THEN lstrip(Tail(s)) ELSE s

RECURSIVE rstrip(_)
rstrip(s) ==
    IF s # <<>> /\ s[Len(s)] \in Whitespace
    THEN rstrip(SubSeq(s, 1, Len(s) - 1)) ELSE s

\* str.strip()
strip(s) == rstrip(lstrip(s))

\* key in s  (substring test)
contains(key, s) ==
    \E i \in 1..(Len(s) - Len(key) + 1) :
        \A j \in 1..Len(key) : s[i + j - 1] = key[j]

\* s.startswith(old)
startswith(s, old) ==
    Len(s) >= Len(old) /\ \A j \in 1..Len(old) : s[j] = old[j]

\* s.replace(old, ""), old non-empty: non-overlapping occurrences, left to right
RECURSIVE remove_all(_, _)
remove_all(s, old) ==
    IF ~contains(old, s) THEN s
    ELSE IF startswith(s, old)
         THEN remove_all(SubSeq(s, Len(old) + 1, Len(s)), old)
         ELSE <<Head(s)>> \o remove_all(Tail(s), old)

IsDigit(c) == c \in DigitSet
DigitVal(c) == (CHOOSE i \in 1..10 : DigitChars[i] = c) - 1

\* str(n) for a natural number n
RECURSIVE NatToStr(_)
NatToStr(n) ==
    IF n < 10 THEN <<DigitChars[n + 1]>>
    ELSE NatToStr(n \div 10) \o <<DigitChars[(n % 10) + 1]>>

-----------------------------------------------------------------------------
(* Naturals of arbitrary size: little-endian limbs, no leading zero limb   *)

Base == 2^12

RECURSIVE BTrim(_)
BTrim(a) ==
    IF a = <<>> THEN <<>>
    ELSE IF a[Len(a)] = 0 THEN BTrim(SubSeq(a, 1, Len(a) - 1)) ELSE a

RECURSIVE BFromInt(_)
BFromInt(n) == IF n = 0 THEN <<>> ELSE <<n % Base>> \o BFromInt(n \div Base)

Rest(a) == IF a = <<>> THEN <<>> ELSE Tail(a)
Low(a) == IF a = <<>> THEN 0 ELSE Head(a)

RECURSIVE BAddC(_, _, _)
BAddC(a, b, c) ==
    IF a = <<>> /\ b = <<>> THEN (IF c = 0 THEN <<>> ELSE <<c>>)
    ELSE LET s == Low(a) + Low(b) + c
         IN <<s % Base>> \o BAddC(Rest(a), Rest(b), s \div Base)

BAdd(a, b) == BAddC(a, b, 0)

\* a - b for a >= b
RECURSIVE BSubC(_, _, _)
BSubC(a, b, c) ==
    IF a = <<>> THEN <<>>
    ELSE LET d == Low(a) - Low(b) - c
         IN IF d < 0 THEN <<d + Base>> \o BSubC(Rest(a), Rest(b), 1)
                     ELSE <<d>> \o BSubC(Rest(a), Rest(b), 0)

BSub(a, b) == BTrim(BSubC(a, b, 0))

\* -1, 0, 1 as a < b, a = b, a > b
RECURSIVE BCmpTop(_, _, _)
BCmpTop(a, b, i) ==
    IF i = 0 THEN 0
    ELSE IF a[i] < b[i] THEN -1
    ELSE IF a[i] > b[i] THEN 1
    ELSE BCmpTop(a, b, i - 1)

BCmp(a, b) ==
    IF Len(a) < Len(b) THEN -1
    ELSE IF Len(a) > Len(b) THEN 1
    ELSE BCmpTop(a, b, Len(a))

\* a * k + c for 0 <= k, c < 2^18
RECURSIVE BMulSmallC(_, _, _)
BMulSmallC(a, k, c) ==
    IF a = <<>> THEN BFromInt(c)
    ELSE LET p == Head(a) * k + c
         IN <<p % Base>> \o BMulSmallC(Tail(a), k, p \div Base)

BMulSmall(a, k) == IF k = 0 THEN <<>> ELSE BMulSmallC(a, k, 0)

RECURSIVE BMul(_, _)
BMul(a, b) ==
    IF a = <<>> \/ b = <<>> THEN <<>>
    ELSE LET hi == BMul(a, Tail(b))
         IN BAdd(BMulSmall(a, Head(b)), IF hi = <<>> THEN <<>> ELSE <<0>> \o hi)

\* quotient and remainder of a by 0 < k < 2^18
RECURSIVE BDivSmallRaw(_, _)
BDivSmallRaw(a, k) ==
    IF a = <<>> THEN [q |-> <<>>, r |-> 0]
    ELSE LET hi == BDivSmallRaw(Tail(a), k)
             cur == hi.r * Base + Head(a)
         IN [q |-> <<cur \div k>> \o hi.q, r |-> cur % k]

BDivSmall(a, k) ==
    LET d == BDivSmallRaw(a, k) IN [q |-> BTrim(d.q), r |-> d.r]

RECURSIVE IntBits(_)
IntBits(n) == IF n = 0 THEN 0 ELSE 1 + IntBits(n \div 2)

BitLen(a) == IF a = <<>> THEN 0 ELSE 12 * (Len(a) - 1) + IntBits(a[Len(a)])

Zeros(n) == [i \in 1..n |-> 0]

\* a * 2^k
BShl(a, k) ==
    IF a = <<>> THEN <<>> ELSE Zeros(k \div 12) \o BMulSmall(a, 2^(k % 12))

\* a div 2^k and a mod 2^k
BShr(a, k) ==
    LET d == k \div 12
    IN IF Len(a) <= d THEN [q |-> <<>>, r |-> a]
       ELSE LET hi == BDivSmall(SubSeq(a, d + 1, Len(a)), 2^(k % 12))
            IN [q |-> hi.q, r |-> BTrim(SubSeq(a, 1, d) \o <<hi.r>>)]

-----------------------------------------------------------------------------
(* IEEE-754 double arithmetic on naturals counted in units of 2^-Unit      *)

Unit == 6 * 12

\* t rounded to 53 significant bits, ties to even; sticky: the exact value
\* lies strictly above t
RoundSig(t, sticky) ==
    LET L == BitLen(t) IN
    IF L <= 53 THEN t
    ELSE LET k == L - 53
             sh == BShr(t, k)
             c == BCmp(sh.r, BShl(<<1>>, k - 1))
             up == c = 1 \/ (c = 0 /\ (sticky \/ sh.q[1] % 2 = 1))
         IN BShl(IF up THEN BAdd(sh.q, <<1>>) ELSE sh.q, k)

\* h / 10^f rounded to the nearest double, in units of 2^-unit
RECURSIVE DivPow10(_, _, _)
DivPow10(t, f, sticky) ==
    IF f = 0 THEN [q |-> t, sticky |-> sticky]
    ELSE LET d == BDivSmall(t, 10)
         IN DivPow10(d.q, f - 1, sticky \/ d.r # 0)

DecimalToDouble(h, f, unit) ==
    LET d == DivPow10(BShl(h, unit + 12), f, FALSE)
    IN BShr(RoundSig(d.q, d.sticky), 12).q

FMul(a, b) == BShr(RoundSig(BMul(a, b), FALSE), Unit).q
FAdd(a, b) == RoundSig(BAdd(a, b), FALSE)
\* a - b for a >= b
FSub(a, b) == RoundSig(BSub(a, b), FALSE)
FGe(a, b) == BCmp(a, b) >= 0
FLt(a, b) == BCmp(a, b) < 0
FloatOfInt(n) == BShl(BFromInt(n), Unit)

-----------------------------------------------------------------------------
(* chatbot.py, section 2: unit conversion and name normalisation           *)

\* the dict UNIT_MAP in insertion order, which is the order a dict iterates in
UNIT_MAP == <<
    [key |-> <<"g">>, factor |-> 1],
    [key |-> <<"g","r","a","m">>, factor |-> 1],
    [key |-> <<"g","r","a","m",".">>, factor |-> 1],
    [key |-> <<"g","r","a","m","s">>, factor |-> 1],
    [key |-> <<"t","b","s","p">>, factor |-> 15],
    [key |-> <<"t","a","b","l","e","s","p","o","o","n">>, factor |-> 15],
    [key |-> <<"t","s","p">>, factor |-> 5],
    [key |-> <<"t","e","a","s","p","o","o","n">>, factor |-> 5],
    [key |-> <<"c","u","p">>, factor |-> 240],
    [key |-> <<"c","u","p","s">>, factor |-> 240],
    [key |-> <<"m","l">>, factor |-> 1],
    [key |-> <<"l","t","r">>, factor |-> 1000],
    [key |-> <<"l","i","t","r","e">>, factor |-> 1000],
    [key |-> <<"l","i","t","e","r">>, factor |-> 1000],
    [key |-> <<"n","u","m","b","e","r">>, factor |-> 1] >>

Returned(v) == [raised |-> FALSE, value |-> v]
Raised(e) == [raised |-> TRUE, value |-> e]

IsNumChar(c) == IsDigit(c) \/ c = "."

\* re.search(r"([\d\.]+)", s).group(1): the first maximal run of digits and
\* dots; <<>> when there is no match
re_search_number(s) ==
    IF \A i \in 1..Len(s) : ~IsNumChar(s[i]) THEN <<>>
    ELSE LET i == CHOOSE k \in 1..Len(s) :
                      IsNumChar(s[k]) /\ \A m \in 1..(k - 1) : ~IsNumChar(s[m])
             j == CHOOSE k \in i..Len(s) :
                      /\ \A m \in i..k : IsNumChar(s[m])
                      /\ (k = Len(s) \/ ~IsNumChar(s[k + 1]))
         IN SubSeq(s, i, j)

RECURSIVE DigitsToNat(_)
DigitsToNat(t) ==
    IF t = <<>> THEN <<>>
    ELSE BAdd(BMulSmall(DigitsToNat(SubSeq(t, 1, Len(t) - 1)), 10),
              BFromInt(DigitVal(t[Len(t)])))

\* float(t) for t a run of digits and dots: digits with at most one dot and at
\* least one digit, anything else raises ValueError
float_of_str(t) ==
    LET dots == {i \in 1..Len(t) : t[i] = "."}
        digits == SelectSeq(t, IsDigit)
    IN IF Cardinality(dots) > 1 \/ digits = <<>> THEN Raised("ValueError")
       ELSE LET f == IF dots = {} THEN 0 ELSE Len(t) - (CHOOSE i \in dots : TRUE)
            IN Returned(DecimalToDouble(DigitsToNat(digits), f, Unit))

\* the loop of lines 50-52: the first key of UNIT_MAP, in iteration order from
\* i on, that is a substring of s; 0 when none is
RECURSIVE first_unit_from(_, _)
first_unit_from(s, i) ==
    IF i > Len(UNIT_MAP) THEN 0
    ELSE IF contains(UNIT_MAP[i].key, s) THEN i
    ELSE first_unit_from(s, i + 1)

first_unit(s) == first_unit_from(s, 1)

parse_quantity_str(qty_str) ==
    LET s == strip(lower(qty_str))
        match == re_search_number(s)
        amount == IF match # <<>> THEN float_of_str(match)
                                  ELSE Returned(FloatOfInt(1))
        u == first_unit(s)
    IN IF amount.raised THEN amount
       ELSE IF u # 0
            THEN Returned(FMul(amount.value, FloatOfInt(UNIT_MAP[u].factor)))
            ELSE amount

descriptors == <<
    <<"b","o","i","l","e","d">>,
    <<"m","i","n","c","e","d">>,
    <<"c","h","o","p","p","e","d">>,
    <<"p","o","w","d","e","r">>,
    <<"g","r","o","u","n","d">>,
    <<"f","r","e","s","h">>,
    <<"d","r","i","e","d">>,
    <<"s","l","i","c","e","d">>,
    <<"s","h","r","e","d","d","e","d">>,
    <<"o","p","t","i","o","n","a","l">> >>

RECURSIVE remove_descriptors(_, _)
remove_descriptors(name, i) ==
    IF i > Len(descriptors) THEN name
    ELSE remove_descriptors(remove_all(name, descriptors[i]), i + 1)

endswith_s(name) == name # <<>> /\ name[Len(name)] = "s"

\* normalize_name without the final strip()
normalize_name_unstripped(name) ==
    LET n1 == remove_descriptors(strip(lower(name)), 1)
    IN IF endswith_s(n1) THEN SubSeq(n1, 1, Len(n1) - 1) ELSE n1

normalize_name(name) ==
    LET n1 == remove_descriptors(strip(lower(name)), 1)
        n2 == IF endswith_s(n1) THEN SubSeq(n1, 1, Len(n1) - 1) ELSE n1
    IN strip(n2)

-----------------------------------------------------------------------------
(* chatbot.py, section 3: the queries                                      *)
(* ingredients rows: [ingredient_id, name, quantity, unit], quantity a     *)
(* DECIMAL(10,2) kept as a whole number of hundredths;                     *)
(* recipes rows: [recipe_id, title, taste] (the other columns are text     *)
(* that is only copied into the prompt);                                   *)
(* recipe_ingredients rows: [recipe_id, item, quantity], quantity a str    *)

RECURSIVE SelectRows(_, _)
SelectRows(rows, recipe_id) ==
    IF rows = <<>> THEN <<>>
    ELSE IF Head(rows).recipe_id = recipe_id
         THEN <<[item |-> Head(rows).item, quantity |-> Head(rows).quantity]>>
              \o SelectRows(Tail(rows), recipe_id)
         ELSE SelectRows(Tail(rows), recipe_id)

\* SELECT name, quantity, unit FROM ingredients
fetch_current_ingredients(d) ==
    [i \in 1..Len(d.ingredients) |->
        [name |-> d.ingredients[i].name,
         quantity |-> d.ingredients[i].quantity,
         unit |-> d.ingredients[i].unit]]

RECURSIVE SelectTaste(_, _)
SelectTaste(rows, taste) ==
    IF rows = <<>> THEN <<>>
    ELSE IF Head(rows).taste = taste
         THEN <<Head(rows)>> \o SelectTaste(Tail(rows), taste)
         ELSE SelectTaste(Tail(rows), taste)

\* SELECT * FROM recipes [WHERE taste = %s]; taste "" stands for None
fetch_recipes(d, taste) ==
    IF taste # "" THEN SelectTaste(d.recipes, taste) ELSE d.recipes

\* SELECT item, quantity FROM recipe_ingredients WHERE recipe_id = %s
fetch_recipe_ingredients(d, recipe_id) ==
    SelectRows(d.recipe_ingredients, recipe_id)

-----------------------------------------------------------------------------
(* chatbot.py, section 4: get_feasibility_score                            *)

VITAL_INGREDIENTS == {
    <<"e","g","g">>, <<"f","l","o","u","r">>, <<"m","i","l","k">>,
    <<"p","a","s","t","a">>,
    <<"r","a","m","e","n"," ","n","o","o","d","l","e">>,
    <<"c","h","i","c","k","e","n">>, <<"s","u","g","a","r">> }

\* the float literals of the function
Zero == <<>>
One == FloatOfInt(1)
Tolerance == DecimalToDouble(<<8>>, 1, Unit)     \* 0.8
Threshold == DecimalToDouble(<<5>>, 1, Unit)     \* 0.5
\* 1e-9, counted in units of 2^-(2 * Unit)
Epsilon == DecimalToDouble(<<1>>, 9, 2 * Unit)

\* str(Decimal) of a DECIMAL(10,2) column holding q hundredths
str_decimal(q) ==
    NatToStr(q \div 100) \o <<".">>
    \o <<DigitChars[((q \div 10) % 10) + 1], DigitChars[(q % 10) + 1]>>

\* user_dict.get(k, 0.0)
dict_get(user_dict, k) == IF k \in DOMAIN user_dict THEN user_dict[k] ELSE Zero

\* the loop of lines 148-151: {normalized_name: grams}, duplicates add up
RECURSIVE build_user_dict(_, _, _)
build_user_dict(user_ingredients, i, user_dict) ==
    IF i > Len(user_ingredients) THEN Returned(user_dict)
    ELSE LET ing == user_ingredients[i]
             norm == normalize_name(ing.name)
             user_qty_grams ==
                 parse_quantity_str(str_decimal(ing.quantity) \o ing.unit)
         IN IF user_qty_grams.raised THEN user_qty_grams
            ELSE build_user_dict(user_ingredients, i + 1,
                     [k \in DOMAIN user_dict \cup {norm} |->
                         IF k = norm
                         THEN FAdd(dict_get(user_dict, norm), user_qty_grams.value)
                         ELSE user_dict[k]])

\* user_has < 1e-9
is_absent(user_has) == BCmp(BShl(user_has, Unit), Epsilon) < 0

\* user_has >= needed_grams * 0.8
is_satisfied(user_has, needed_grams) ==
    FGe(user_has, FMul(needed_grams, Tolerance))

\* max(0.0, needed_grams - user_has)
shortfall_of(needed_grams, user_has) ==
    IF FGe(needed_grams, user_has) THEN FSub(needed_grams, user_has) ELSE Zero

\* satisfied_count / needed_count, correctly rounded
FDivInt(n, d) ==
    LET t == BDivSmall(BShl(BFromInt(n), Unit + 12), d)
    IN BShr(RoundSig(t.q, t.r # 0), 12).q

\* final_score without the collapse of a coverage below 0.5
final_score_uncollapsed(satisfied_count, needed_count, missing_ings) ==
    Returned([score |-> IF needed_count > 0
                        THEN FDivInt(satisfied_count, needed_count) ELSE One,
              missing |-> missing_ings])

\* lines 176-184
final_score(satisfied_count, needed_count, missing_ings) ==
    LET score == IF needed_count > 0 THEN FDivInt(satisfied_count, needed_count)
                                     ELSE One
    IN IF FLt(score, Threshold)
       THEN Returned([score |-> Zero, missing |-> missing_ings])
       ELSE Returned([score |-> score, missing |-> missing_ings])

\* the loop of lines 157-174 from ingredient i on
RECURSIVE score_loop(_, _, _, _, _)
score_loop(recipe_ings, user_dict, i, satisfied_count, missing_ings) ==
    IF i > Len(recipe_ings)
    THEN final_score(satisfied_count, Len(recipe_ings), missing_ings)
    ELSE LET norm_ing == normalize_name(recipe_ings[i].item)
             needed_grams == parse_quantity_str(recipe_ings[i].quantity)
             user_has == dict_get(user_dict, norm_ing)
         IN IF needed_grams.raised THEN needed_grams
            ELSE IF norm_ing \in VITAL_INGREDIENTS /\ is_absent(user_has)
            THEN Returned([score |-> Zero,
                           missing |-> <<<<norm_ing, needed_grams.value>>>>])
            ELSE IF is_satisfied(user_has, needed_grams.value)
            THEN score_loop(recipe_ings, user_dict, i + 1,
                            satisfied_count + 1, missing_ings)
            ELSE score_loop(recipe_ings, user_dict, i + 1, satisfied_count,
                     Append(missing_ings,
                            <<norm_ing,
                              shortfall_of(needed_grams.value, user_has)>>))

get_feasibility_score(d, recipe_id, user_ingredients) ==
    LET recipe_ings == fetch_recipe_ingredients(d, recipe_id)
        user_dict == build_user_dict(user_ingredients, 1, <<>>)
    IN IF user_dict.raised THEN user_dict
       ELSE score_loop(recipe_ings, user_dict.value, 1, 0, <<>>)

-----------------------------------------------------------------------------
(* Calls of the pure functions on inputs drawn from bounded sets           *)

MaxQtyLen == 3
MaxIngs == 3

EmptyDb == [ingredients |-> <<>>, recipes |-> <<>>, recipe_ingredients |-> <<>>]
NoChat == [user_input |-> <<>>]
NoValue == [raised |-> FALSE, value |-> "none"]

\* ---- parse_quantity_str ----
Amounts == { <<"2",".","5">>, <<"3">>, <<"1","0">>, <<"0",".","5">> }
Separators == { <<>>, <<" ">> }
\* the conversion table as the specification states it
StatedUnits == <<
    [word |-> <<"g">>, factor |-> 1],
    [word |-> <<"g","r","a","m">>, factor |-> 1],
    [word |-> <<"g","r","a","m","s">>, factor |-> 1],
    [word |-> <<"t","b","s","p">>, factor |-> 15],
    [word |-> <<"t","a","b","l","e","s","p","o","o","n">>, factor |-> 15],
    [word |-> <<"t","s","p">>, factor |-> 5],
    [word |-> <<"t","e","a","s","p","o","o","n">>, factor |-> 5],
    [word |-> <<"c","u","p">>, factor |-> 240],
    [word |-> <<"c","u","p","s">>, factor |-> 240],
    [word |-> <<"m","l">>, factor |-> 1],
    [word |-> <<"m","i","l","l","i","l","i","t","r","e">>, factor |-> 1],
    [word |-> <<"l","t","r">>, factor |-> 1000],
    [word |-> <<"l","i","t","r","e">>, factor |-> 1000],
    [word |-> <<"l","i","t","e","r">>, factor |-> 1000],
    [word |-> <<"n","u","m","b","e","r">>, factor |-> 1] >>
QtyAlphabet == {"1", ".", "g", " "}
QtyStrings ==
    UNION {[1..n -> QtyAlphabet] : n \in 0..MaxQtyLen}
    \cup {n \o sep \o StatedUnits[i].word :
            n \in Amounts, sep \in Separators, i \in 1..Len(StatedUnits)}
    \cup { <<"e","g","g","s">>, <<"a","p","p","r","o","x","."," ","2"," ","c","u","p","s">>, <<"1",".","2",".","3">>, <<"2","5","0","g">> }

InitParse ==
    /\ pc = "call_parse"
    /\ arg \in QtyStrings
    /\ ret = NoValue
    /\ db = EmptyDb /\ loader = "idle" /\ chatv = NoChat /\ fetchLog = {}

CallParse ==
    /\ pc = "call_parse"
    /\ ret' = parse_quantity_str(arg)
    /\ pc' = "done_parse"
    /\ UNCHANGED <<arg, db, loader, chatv, fetchLog>>

SpecParse == InitParse /\ [][CallParse]_vars

\* ---- normalize_name ----
BaseNames == { <<"e","g","g">>, <<"t","o","m","a","t","o","e">>, <<"m","i","l","k">>, <<"r","i","c","e">>, <<"o","n","i","o","n">> }
Plurals == { <<>>, <<"s">> }
Prefixes == {<<>>} \cup {descriptors[i] \o <<" ">> : i \in 1..Len(descriptors)}
Names ==
    {d \o b \o p : d \in Prefixes, b \in BaseNames, p \in Plurals}
    \cup { <<"b","o","i","l","e","d"," ","e","g","g","s">>, <<"e","g","g">>, <<"F","r","e","s","h"," ","T","o","m","a","t","o","e","s">> }

InitName ==
    /\ pc = "call_normalize"
    /\ arg \in Names
    /\ ret = NoValue
    /\ db = EmptyDb /\ loader = "idle" /\ chatv = NoChat /\ fetchLog = {}

CallNormalize ==
    /\ pc = "call_normalize"
    /\ ret' = Returned(normalize_name(arg))
    /\ pc' = "done_normalize"
    /\ UNCHANGED <<arg, db, loader, chatv, fetchLog>>

SpecName == InitName /\ [][CallNormalize]_vars

\* ---- get_feasibility_score ----
\* the pantry of the specification's end-to-end scenarios
PantryA ==
    <<[name |-> <<"e","g","g">>, quantity |-> 600, unit |-> <<"n","u","m","b","e","r">>],
      [name |-> <<"f","l","o","u","r">>, quantity |-> 50000, unit |-> <<"g","r","a","m">>],
      [name |-> <<"s","u","g","a","r">>, quantity |-> 5000, unit |-> <<"g","r","a","m">>]>>
\* duplicate names; salt, sugar and flour at exactly 80% of what IngPool asks
PantryB ==
    <<[name |-> <<"E","g","g","s">>, quantity |-> 100, unit |-> <<"n","u","m","b","e","r">>],
      [name |-> <<"e","g","g">>, quantity |-> 100, unit |-> <<"n","u","m","b","e","r">>],
      [name |-> <<"s","u","g","a","r">>, quantity |-> 8000, unit |-> <<"g","r","a","m">>],
      [name |-> <<"m","i","l","k">>, quantity |-> 100, unit |-> <<"l","i","t","r","e">>],
      [name |-> <<"s","a","l","t">>, quantity |-> 240, unit |-> <<"g","r","a","m">>],
      [name |-> <<"f","l","o","u","r">>, quantity |-> 24000, unit |-> <<"g","r","a","m">>]>>
\* a vital ingredient stocked with zero; salt and flour just below 80%
PantryC ==
    <<[name |-> <<"m","i","l","k">>, quantity |-> 0, unit |-> <<"l","i","t","r","e">>],
      [name |-> <<"s","a","l","t">>, quantity |-> 239, unit |-> <<"g","r","a","m">>],
      [name |-> <<"f","l","o","u","r">>, quantity |-> 23999, unit |-> <<"g","r","a","m">>],
      [name |-> <<"e","g","g">>, quantity |-> 200, unit |-> <<"n","u","m","b","e","r">>]>>
Pantries == {PantryA, PantryB, PantryC, <<>>}

IngPool == {
    [item |-> <<"e","g","g">>, quantity |-> <<"2">>],
    [item |-> <<"f","l","o","u","r">>, quantity |-> <<"3","0","0","g">>],
    [item |-> <<"s","u","g","a","r">>, quantity |-> <<"1","0","0","g">>],
    [item |-> <<"m","i","l","k">>, quantity |-> <<"2","0","0","m","l">>],
    [item |-> <<"s","a","l","t">>, quantity |-> <<"3","g">>],
    [item |-> <<"p","e","p","p","e","r">>, quantity |-> <<"a"," ","p","i","n","c","h",".">>] }
\* the recipe of the specification's end-to-end scenario
Pancakes ==
    <<[item |-> <<"e","g","g">>, quantity |-> <<"2">>],
      [item |-> <<"f","l","o","u","r">>, quantity |-> <<"3","0","0","g">>],
      [item |-> <<"s","u","g","a","r">>, quantity |-> <<"1","0","0","g">>],
      [item |-> <<"m","i","l","k">>, quantity |-> <<"2","0","0","m","l">>]>>
IngLists == UNION {[1..n -> IngPool] : n \in 0..MaxIngs} \cup {Pancakes}

RowsOf(recipe_id, ings) ==
    [i \in 1..Len(ings) |->
        [recipe_id |-> recipe_id, item |-> ings[i].item,
         quantity |-> ings[i].quantity]]

InitScore ==
    /\ pc = "call_score"
    /\ \E pantry \in Pantries, ings \in IngLists :
          /\ arg = [recipe_id |-> 1, user_ingredients |-> pantry]
          /\ db = [ingredients |-> <<>>, recipes |-> <<>>,
                   recipe_ingredients |-> RowsOf(1, ings)]
    /\ ret = NoValue
    /\ loader = "idle" /\ chatv = NoChat /\ fetchLog = {}

CallScore ==
    /\ pc = "call_score"
    /\ ret' = get_feasibility_score(db, arg.recipe_id, arg.user_ingredients)
    /\ pc' = "done_score"
    /\ UNCHANGED <<arg, db, loader, chatv, fetchLog>>

SpecScore == InitScore /\ [][CallScore]_vars

-----------------------------------------------------------------------------
(* Properties of get_feasibility_score, checked under SpecScore            *)

RecipeIngs == fetch_recipe_ingredients(db, arg.recipe_id)
UserDict == build_user_dict(arg.user_ingredients, 1, <<>>).value
NormAt(i) == normalize_name(RecipeIngs[i].item)
NeededAt(i) == parse_quantity_str(RecipeIngs[i].quantity)
HasAt(i) == dict_get(UserDict, NormAt(i))
\* ingredient i is vital and the pantry holds zero grams of it
VitalAbsentAt(i) == NormAt(i) \in VITAL_INGREDIENTS /\ HasAt(i) = Zero
NoVitalAbsent == \A i \in 1..Len(RecipeIngs) : ~VitalAbsentAt(i)
ScoreReturned == pc = "done_score" /\ ~ret.raised

\* C1: every score get_feasibility_score returns is exactly 0.0 or lies in
\* [0.5, 1.0]: never strictly between 0 and 0.5, never above 1.0.
ClaimC1 ==
    ScoreReturned =>
        \/ ret.value.score = Zero
        \/ FGe(ret.value.score, Threshold) /\ FGe(One, ret.value.score)

\* one of three ingredients satisfied: a coverage of 1/3 collapsed to 0.0
WitnessC1 ==
    /\ ScoreReturned
    /\ Len(RecipeIngs) = 3
    /\ Len(ret.value.missing) = 2
    /\ ret.value.score = Zero

\* C2: if some ingredient of the recipe is vital and the pantry holds zero
\* grams of it, get_feasibility_score returns score 0.0 and a missing list of
\* exactly one entry, such an ingredient with its required grams, whatever the
\* other ingredients of the recipe are.
ClaimC2 ==
    (pc = "done_score" /\ ~NoVitalAbsent) =>
        /\ ~ret.raised
        /\ ret.value.score = Zero
        /\ Len(ret.value.missing) = 1
        /\ \E i \in 1..Len(RecipeIngs) :
              /\ VitalAbsentAt(i)
              /\ ret.value.missing[1] = <<NormAt(i), NeededAt(i).value>>

\* The same statement for the calls that return: it holds, so ClaimC2 fails
\* only where parse_quantity_str raises before the vital ingredient is met.
C2WhenReturned ==
    (ScoreReturned /\ ~NoVitalAbsent) =>
        /\ ret.value.score = Zero
        /\ Len(ret.value.missing) = 1
        /\ \E i \in 1..Len(RecipeIngs) :
              /\ VitalAbsentAt(i)
              /\ ret.value.missing[1] = <<NormAt(i), NeededAt(i).value>>

\* The quantities as the decimal numbers that are written, n / 10^e, with no
\* rounding to a double: what "80 percent of the required grams" means.
ExactQty(qty_str) ==
    LET s == strip(lower(qty_str))
        m == re_search_number(s)
        u == first_unit(s)
        factor == IF u # 0 THEN UNIT_MAP[u].factor ELSE 1
        dots == {i \in 1..Len(m) : m[i] = "."}
    IN IF m = <<>> THEN [n |-> BFromInt(factor), e |-> 0]
       ELSE [n |-> BMulSmall(DigitsToNat(SelectSeq(m, IsDigit)), factor),
             e |-> IF dots = {} THEN 0 ELSE Len(m) - (CHOOSE i \in dots : TRUE)]

RECURSIVE Pow10Mul(_, _)
Pow10Mul(a, k) == IF k = 0 THEN a ELSE Pow10Mul(BMulSmall(a, 10), k - 1)

\* hundredths of a gram the pantry holds under canonical name k
RECURSIVE ExactHasFrom(_, _)
ExactHasFrom(k, i) ==
    IF i > Len(arg.user_ingredients) THEN <<>>
    ELSE LET ing == arg.user_ingredients[i]
             rest == ExactHasFrom(k, i + 1)
         IN IF normalize_name(ing.name) = k
            THEN BAdd(ExactQty(str_decimal(ing.quantity) \o ing.unit).n, rest)
            ELSE rest

\* pantry grams >= 80 percent of required grams, in exact arithmetic
ExactSatisfiedAt(i) ==
    LET need == ExactQty(RecipeIngs[i].quantity)
    IN BCmp(Pow10Mul(ExactHasFrom(NormAt(i), 1), need.e + 1),
            BMulSmall(need.n, 800)) >= 0

RECURSIVE NonVitalNames(_)
NonVitalNames(missing) ==
    IF missing = <<>> THEN <<>>
    ELSE IF Head(missing)[1] \in VITAL_INGREDIENTS
         THEN NonVitalNames(Tail(missing))
         ELSE <<Head(missing)[1]>> \o NonVitalNames(Tail(missing))

RECURSIVE ExactShortNonVital(_)
ExactShortNonVital(i) ==
    IF i > Len(RecipeIngs) THEN <<>>
    ELSE IF NormAt(i) \notin VITAL_INGREDIENTS /\ ~ExactSatisfiedAt(i)
         THEN <<NormAt(i)>> \o ExactShortNonVital(i + 1)
         ELSE ExactShortNonVital(i + 1)

\* C3: a non-vital ingredient counts as satisfied exactly when the pantry
\* grams of its canonical name are at least 80 percent of the required grams:
\* the non-vital entries of the missing list are exactly the non-vital
\* ingredients stocked below 80 percent, and an ingredient stocked at exactly
\* 80 percent is not among them.
ClaimC3 ==
    (ScoreReturned /\ NoVitalAbsent) =>
        NonVitalNames(ret.value.missing) = ExactShortNonVital(1)

SatisfiedCount ==
    Cardinality({i \in 1..Len(RecipeIngs) :
                    is_satisfied(HasAt(i), NeededAt(i).value)})

ExpectedScore ==
    IF Len(RecipeIngs) = 0 THEN One
    ELSE IF 2 * SatisfiedCount >= Len(RecipeIngs)
         THEN FDivInt(SatisfiedCount, Len(RecipeIngs))
         ELSE Zero

RECURSIVE ExpectedMissing(_)
ExpectedMissing(i) ==
    IF i > Len(RecipeIngs) THEN <<>>
    ELSE IF is_satisfied(HasAt(i), NeededAt(i).value)
         THEN ExpectedMissing(i + 1)
         ELSE <<<<NormAt(i),
                  IF FGe(NeededAt(i).value, HasAt(i))
                  THEN FSub(NeededAt(i).value, HasAt(i)) ELSE Zero>>>>
              \o ExpectedMissing(i + 1)

\* C4: when no vital short-circuit occurs, get_feasibility_score returns
\* coverage = satisfied_count / total (1.0 for no ingredients) as the score if
\* coverage >= 0.5 and 0.0 otherwise, and the missing list holds exactly the
\* unsatisfied ingredients in recipe order, each with shortfall
\* max(0, required - available), also when the score is forced to 0.0.
ClaimC4 ==
    (pc = "done_score" /\ NoVitalAbsent) =>
        /\ ~ret.raised
        /\ ret.value = [score |-> ExpectedScore, missing |-> ExpectedMissing(1)]

\* The same statement for the calls that return: it holds, so ClaimC4 fails
\* only where parse_quantity_str raises.
C4WhenReturned ==
    (ScoreReturned /\ NoVitalAbsent) =>
        ret.value = [score |-> ExpectedScore, missing |-> ExpectedMissing(1)]

-----------------------------------------------------------------------------
(* Properties of parse_quantity_str, checked under SpecParse               *)

FirstRun(s) == re_search_number(strip(lower(s)))
MalformedRun(s) == FirstRun(s) # <<>> /\ float_of_str(FirstRun(s)).raised
\* the amount 1.0 in the unit the string names
DefaultGrams(s) ==
    LET u == first_unit(strip(lower(s)))
    IN IF u # 0 THEN FMul(One, FloatOfInt(UNIT_MAP[u].factor)) ELSE One

\* C6: parse_quantity_str never raises: it returns a number for every string,
\* and when the first run of digits and dots is not a well-formed number the
\* amount defaults to 1.0.
ClaimC6 ==
    pc = "done_parse" =>
        /\ ~ret.raised
        /\ MalformedRun(arg) => ret.value = DefaultGrams(arg)

\* The calls on a well-formed first run, or on none, do return.
C6WhenWellFormed ==
    (pc = "done_parse" /\ ~MalformedRun(arg)) => ~ret.raised

\* C7: for every amount n and every unit word of the stated conversion table,
\* parse_quantity_str of n followed by the word (with or without a space)
\* returns n times the word's stated factor; a string with no number, "eggs",
\* gives 1.0.
ClaimC7 ==
    pc = "done_parse" =>
        /\ \A n \in Amounts, sep \in Separators, i \in 1..Len(StatedUnits) :
              arg = n \o sep \o StatedUnits[i].word =>
                  ret = Returned(FMul(float_of_str(n).value,
                                      FloatOfInt(StatedUnits[i].factor)))
        /\ arg = <<"e","g","g","s">> => ret = Returned(One)

\* The same statement without the word "millilitre", which is no key of
\* UNIT_MAP and contains the key "litre": it holds.
C7ExceptMillilitre ==
    pc = "done_parse" =>
        /\ \A n \in Amounts, sep \in Separators, i \in 1..Len(StatedUnits) :
              (StatedUnits[i].word # <<"m","i","l","l","i","l","i","t","r","e">>
               /\ arg = n \o sep \o StatedUnits[i].word) =>
                  ret = Returned(FMul(float_of_str(n).value,
                                      FloatOfInt(StatedUnits[i].factor)))
        /\ arg = <<"e","g","g","s">> => ret = Returned(One)

-----------------------------------------------------------------------------
(* Properties of normalize_name, checked under SpecName                    *)

\* C8 as stated: normalize_name maps "boiled eggs" and "egg" to "egg" and
\* "Fresh Tomatoes" to "tomato".
ClaimC8 ==
    pc = "done_normalize" =>
        /\ arg = <<"b","o","i","l","e","d"," ","e","g","g","s">> => ret.value = <<"e","g","g">>
        /\ arg = <<"e","g","g">> => ret.value = <<"e","g","g">>
        /\ arg = <<"F","r","e","s","h"," ","T","o","m","a","t","o","e","s">> => ret.value = <<"t","o","m","a","t","o">>

\* C8 with the value the code computes: normalize_name maps "boiled eggs" and "egg" to "egg" and
\* "Fresh Tomatoes" to "tomatoe" (one trailing "s" is stripped, no more).
ClaimC8Amended ==
    pc = "done_normalize" =>
        /\ arg = <<"b","o","i","l","e","d"," ","e","g","g","s">> => ret.value = <<"e","g","g">>
        /\ arg = <<"e","g","g">> => ret.value = <<"e","g","g">>
        /\ arg = <<"F","r","e","s","h"," ","T","o","m","a","t","o","e","s">> => ret.value = <<"t","o","m","a","t","o","e">>

WitnessC8 ==
    /\ pc = "done_normalize"
    /\ arg = <<"F","r","e","s","h"," ","T","o","m","a","t","o","e","s">>
    /\ ret.value = <<"t","o","m","a","t","o","e">>

-----------------------------------------------------------------------------
(* chatbot.py, sections 5 and 6: one /chat request, step by step at its    *)
(* database queries, beside a process that is importing recipes            *)
(* (app.py, load_structured_recipes_into_db)                               *)

MaxCatalog == 3
TopN == 3

GREETING == "Hi, what can I help you cook today?"
NO_RECIPES == "I couldn't find any suitable recipes given your pantry."

\* x[1] > y[1] for floats
ScoreGt(a, b) == BCmp(a, b) > 0

\* scored_recipes.sort(key=lambda x: x[1], reverse=True): a stable sort, an
\* entry goes behind every entry whose score is at least its own
RECURSIVE insert_desc(_, _)
insert_desc(sorted, x) ==
    IF sorted = <<>> THEN <<x>>
    ELSE IF ScoreGt(x.score, Head(sorted).score) THEN <<x>> \o sorted
    ELSE <<Head(sorted)>> \o insert_desc(Tail(sorted), x)

\* the same sort with equal scores coming out in reverse
RECURSIVE insert_desc_before_equal(_, _)
insert_desc_before_equal(sorted, x) ==
    IF sorted = <<>> THEN <<x>>
    ELSE IF ~ScoreGt(Head(sorted).score, x.score) THEN <<x>> \o sorted
    ELSE <<Head(sorted)>> \o insert_desc_before_equal(Tail(sorted), x)

RECURSIVE sort_desc_ties_reversed(_)
sort_desc_ties_reversed(l) ==
    IF l = <<>> THEN <<>>
    ELSE insert_desc_before_equal(
             sort_desc_ties_reversed(SubSeq(l, 1, Len(l) - 1)), l[Len(l)])

RECURSIVE sort_desc(_)
sort_desc(l) ==
    IF l = <<>> THEN <<>>
    ELSE insert_desc(sort_desc(SubSeq(l, 1, Len(l) - 1)), l[Len(l)])

\* scored_recipes[:3]
take_top(l) == SubSeq(l, 1, IF Len(l) < TopN THEN Len(l) ELSE TopN)

\* "sweet" in user_input.lower()
is_sweet(user_input) == contains(<<"s","w","e","e","t">>, lower(user_input))

Logged(by, table, key, rows) ==
    [by |-> by, table |-> table, key |-> key, rows |-> rows]

\* ---- the catalog the request meets ----
Dishes == {
    [title |-> "Pancakes", taste |-> "Sweet", ingredients |-> Pancakes],
    [title |-> "Omelette", taste |-> "Savory", ingredients |->
        <<[item |-> <<"e","g","g">>, quantity |-> <<"2">>],
          [item |-> <<"s","u","g","a","r">>, quantity |-> <<"1","0","g">>]>>],
    [title |-> "Shortbread", taste |-> "Sweet", ingredients |->
        <<[item |-> <<"s","u","g","a","r">>, quantity |-> <<"1","0","0","g">>],
          [item |-> <<"f","l","o","u","r">>, quantity |-> <<"3","0","0","g">>]>>] }
Catalogs == UNION {[1..n -> Dishes] : n \in 0..MaxCatalog}

\* structured_recipes.json of the importing process
LoadData == <<
    [title |-> "Soup", taste |-> "Savory", ingredients |->
        <<[item |-> <<"e","g","g">>, quantity |-> <<"2">>],
          [item |-> <<"p","e","p","p","e","r">>, quantity |-> <<"a"," ","p","i","n","c","h",".">>]>>] >>

RECURSIVE CatalogRows(_, _)
CatalogRows(catalog, i) ==
    IF i > Len(catalog) THEN <<>>
    ELSE RowsOf(i, catalog[i].ingredients) \o CatalogRows(catalog, i + 1)

UserInputs == { <<>>, <<" ", " ">>, <<"s","o","m","e","t","h","i","n","g"," ","S","w","e","e","t">>, <<"d","i","n","n","e","r">> }

NewChat(user_input) ==
    [user_input |-> user_input, user_ingredients |-> <<>>,
     candidate_recipes |-> <<>>, idx |-> 1, scored_recipes |-> <<>>,
     top_recipes |-> <<>>, bidx |-> 1, blocks |-> <<>>,
     prompt |-> "none", reply |-> "none"]

Init ==
    /\ pc = "chat_begin"
    /\ \E user_input \in UserInputs : chatv = NewChat(user_input)
    /\ \E pantry \in Pantries, catalog \in Catalogs :
          db = [ingredients |->
                    [i \in 1..Len(pantry) |->
                        [ingredient_id |-> i, name |-> pantry[i].name,
                         quantity |-> pantry[i].quantity,
                         unit |-> pantry[i].unit]],
                recipes |->
                    [i \in 1..Len(catalog) |->
                        [recipe_id |-> i, title |-> catalog[i].title,
                         taste |-> catalog[i].taste]],
                recipe_ingredients |-> CatalogRows(catalog, 1)]
    /\ loader = [pc |-> "insert_recipe", r |-> 1, i |-> 1, recipe_id |-> 0]
    /\ fetchLog = {}
    /\ arg = "none"
    /\ ret = NoValue

\* app.py lines 129-140: INSERT INTO recipes, commit, lastrowid
LoaderInsertRecipe ==
    /\ loader.pc = "insert_recipe"
    /\ LET recipe_id == Len(db.recipes) + 1
       IN /\ db' = [db EXCEPT !.recipes =
                        Append(@, [recipe_id |-> recipe_id,
                                   title |-> LoadData[loader.r].title,
                                   taste |-> LoadData[loader.r].taste])]
          /\ loader' = [loader EXCEPT !.pc = "insert_ingredient", !.i = 1,
                                      !.recipe_id = recipe_id]
    /\ UNCHANGED <<pc, arg, ret, chatv, fetchLog>>

\* app.py lines 150-165: one INSERT INTO recipe_ingredients, commit
LoaderInsertIngredient ==
    /\ loader.pc = "insert_ingredient"
    /\ loader.i <= Len(LoadData[loader.r].ingredients)
    /\ LET ing == LoadData[loader.r].ingredients[loader.i]
       IN db' = [db EXCEPT !.recipe_ingredients =
                     Append(@, [recipe_id |-> loader.recipe_id,
                                item |-> ing.item, quantity |-> ing.quantity])]
    /\ loader' = [loader EXCEPT !.i = @ + 1]
    /\ UNCHANGED <<pc, arg, ret, chatv, fetchLog>>

\* app.py line 113: the next recipe of the file, or the end of the import
LoaderNextRecipe ==
    /\ loader.pc = "insert_ingredient"
    /\ loader.i > Len(LoadData[loader.r].ingredients)
    /\ loader' = IF loader.r < Len(LoadData)
                 THEN [loader EXCEPT !.pc = "insert_recipe", !.r = @ + 1]
                 ELSE [loader EXCEPT !.pc = "done"]
    /\ UNCHANGED <<pc, arg, ret, db, chatv, fetchLog>>

\* lines 259-266: the greeting for an empty request, else the pantry query
ChatBegin ==
    /\ pc = "chat_begin"
    /\ IF strip(chatv.user_input) = <<>>
       THEN /\ chatv' = [chatv EXCEPT !.reply = GREETING]
            /\ pc' = "chat_done"
            /\ UNCHANGED fetchLog
       ELSE /\ chatv' = [chatv EXCEPT
                   !.user_input = strip(chatv.user_input),
                   !.user_ingredients = fetch_current_ingredients(db)]
            /\ fetchLog' = fetchLog \cup
                   {Logged("chat", "ingredients", 0, <<>>)}
            /\ pc' = "chat_fetch_recipes"
    /\ UNCHANGED <<arg, ret, db, loader>>

\* lines 269-274
ChatFetchRecipes ==
    /\ pc = "chat_fetch_recipes"
    /\ chatv' = [chatv EXCEPT
           !.candidate_recipes =
               fetch_recipes(db, IF is_sweet(chatv.user_input)
                                 THEN "Sweet" ELSE ""),
           !.idx = 1, !.scored_recipes = <<>>]
    /\ fetchLog' = fetchLog \cup {Logged("chat", "recipes", 0, <<>>)}
    /\ pc' = "chat_score"
    /\ UNCHANGED <<arg, ret, db, loader>>

\* lines 276-278: what the loop does with a returned (score, missing)
scored_with(scored_recipes, recipe, result) ==
    IF ScoreGt(result.score, Zero)
    THEN Append(scored_recipes, [recipe |-> recipe, score |-> result.score,
                                 missing |-> result.missing])
    ELSE scored_recipes

\* the turn of the loop for the outcome r of get_feasibility_score
after_score(c, recipe, r) ==
    IF r.raised
    THEN [c EXCEPT !.reply = r.value]
    ELSE [c EXCEPT !.idx = @ + 1,
                   !.scored_recipes = scored_with(@, recipe, r.value)]

\* lines 275-278: one turn of the scoring loop; an exception ends the request
ChatScore ==
    /\ pc = "chat_score"
    /\ chatv.idx <= Len(chatv.candidate_recipes)
    /\ chatv' = after_score(chatv, chatv.candidate_recipes[chatv.idx],
                   get_feasibility_score(
                       db, chatv.candidate_recipes[chatv.idx].recipe_id,
                       chatv.user_ingredients))
    /\ fetchLog' = fetchLog \cup
           {Logged("get_feasibility_score", "recipe_ingredients",
                   chatv.candidate_recipes[chatv.idx].recipe_id,
                   fetch_recipe_ingredients(
                       db, chatv.candidate_recipes[chatv.idx].recipe_id))}
    /\ pc' = IF chatv'.reply = "none" THEN "chat_score" ELSE "chat_error"
    /\ UNCHANGED <<arg, ret, db, loader>>

\* lines 281-288 without the return at lines 283-285
ChatRankUnchecked ==
    /\ pc = "chat_score"
    /\ chatv.idx > Len(chatv.candidate_recipes)
    /\ chatv' = [chatv EXCEPT !.scored_recipes = sort_desc(@),
                              !.top_recipes = take_top(sort_desc(chatv.scored_recipes)),
                              !.bidx = 1, !.blocks = <<>>]
    /\ pc' = "chat_build"
    /\ UNCHANGED <<arg, ret, db, loader, fetchLog>>

\* lines 281-288
ChatRank ==
    /\ pc = "chat_score"
    /\ chatv.idx > Len(chatv.candidate_recipes)
    /\ LET sorted == sort_desc(chatv.scored_recipes)
       IN IF sorted = <<>>
          THEN /\ chatv' = [chatv EXCEPT !.reply = NO_RECIPES]
               /\ pc' = "chat_done"
          ELSE /\ chatv' = [chatv EXCEPT !.scored_recipes = sorted,
                                         !.top_recipes = take_top(sorted),
                                         !.bidx = 1, !.blocks = <<>>]
               /\ pc' = "chat_build"
    /\ UNCHANGED <<arg, ret, db, loader, fetchLog>>

\* build_chat_prompt, lines 201-227: one turn of its loop, the block of one
\* recipe with the ingredient list it queries
ChatBuildBlock ==
    /\ pc = "chat_build"
    /\ chatv.bidx <= Len(chatv.top_recipes)
    /\ LET entry == chatv.top_recipes[chatv.bidx]
           recipe_ing == fetch_recipe_ingredients(db, entry.recipe.recipe_id)
       IN /\ chatv' = [chatv EXCEPT
                 !.bidx = @ + 1,
                 !.blocks = Append(@, [recipe |-> entry.recipe,
                                       ingredients |-> recipe_ing,
                                       score |-> entry.score,
                                       missing |-> entry.missing])]
          /\ fetchLog' = fetchLog \cup
                 {Logged("build_chat_prompt", "recipe_ingredients",
                         entry.recipe.recipe_id, recipe_ing)}
    /\ pc' = "chat_build"
    /\ UNCHANGED <<arg, ret, db, loader>>

\* build_chat_prompt, lines 229-246: the prompt, kept as its parts
ChatPrompt ==
    /\ pc = "chat_build"
    /\ chatv.bidx > Len(chatv.top_recipes)
    /\ chatv' = [chatv EXCEPT
           !.prompt = [user_input |-> chatv.user_input,
                       user_ingredients |-> chatv.user_ingredients,
                       blocks |-> chatv.blocks]]
    /\ pc' = "chat_generate"
    /\ UNCHANGED <<arg, ret, db, loader, fetchLog>>

\* lines 292-295: the generation call, whose reply the model decides
ChatGenerate ==
    /\ pc = "chat_generate"
    /\ chatv' = [chatv EXCEPT !.reply = "generated"]
    /\ fetchLog' = fetchLog \cup {Logged("chat", "generate_content", 0, <<>>)}
    /\ pc' = "chat_done"
    /\ UNCHANGED <<arg, ret, db, loader>>

Next ==
    \/ ChatBegin
    \/ ChatFetchRecipes
    \/ ChatScore
    \/ ChatRank
    \/ ChatBuildBlock
    \/ ChatPrompt
    \/ ChatGenerate
    \/ LoaderInsertRecipe
    \/ LoaderInsertIngredient
    \/ LoaderNextRecipe

Spec == Init /\ [][Next]_vars

\* ---------------------------------------------------------------------
\* Claims about the chat request
\* ---------------------------------------------------------------------

\* position of a recipe among the candidates the catalog query returned
CandidatePos(recipe) ==
    CHOOSE k \in 1..Len(chatv.candidate_recipes) :
        chatv.candidate_recipes[k] = recipe

SameScore(a, b) == ~ScoreGt(a.score, b.score) /\ ~ScoreGt(b.score, a.score)

\* top is the ranking of the eligible entries, given in scoring order
RankedFrom(eligible, top) ==
    /\ Len(top) <= 3
    /\ Len(top) = (IF Len(eligible) < 3 THEN Len(eligible) ELSE 3)
    /\ \A i \in 1..Len(top) : ScoreGt(top[i].score, Zero)
    /\ \A i, j \in 1..Len(top) : i < j => ~ScoreGt(top[j].score, top[i].score)
    /\ \A i \in 1..Len(top) : \E k \in 1..Len(eligible) : eligible[k] = top[i]
    /\ \A i, j \in 1..Len(top) : i # j => top[i].recipe # top[j].recipe
    /\ \A k \in 1..Len(eligible) :
          (\A i \in 1..Len(top) : top[i] # eligible[k])
              => \A i \in 1..Len(top) : ~ScoreGt(eligible[k].score, top[i].score)
    /\ \A i, j \in 1..Len(top) :
          (i < j /\ SameScore(top[i], top[j]))
              => CandidatePos(top[i].recipe) < CandidatePos(top[j].recipe)

\* C5: whenever chat ranks the entries it scored, top_recipes has at most 3
\* entries, none with score 0.0, is sorted by score non-increasing, holds the
\* highest-scoring eligible candidates, and keeps entries of equal score in
\* the relative order of the candidate catalog.
ClaimC5 ==
    [][(pc = "chat_score" /\ pc' \in {"chat_build", "chat_done"})
          => RankedFrom(chatv.scored_recipes, chatv'.top_recipes)]_vars

\* a ranking that dropped an eligible entry, held two entries of equal score
\* and had to move a later candidate in front of an earlier one
WitnessC5 ==
    /\ pc = "chat_build"
    /\ chatv.bidx = 1
    /\ Len(chatv.scored_recipes) > 3
    /\ Len(chatv.top_recipes) = 3
    /\ \E i, j \in 1..3 :
          i < j /\ SameScore(chatv.top_recipes[i], chatv.top_recipes[j])
    /\ \E i, j \in 1..3 :
          /\ i < j
          /\ ScoreGt(chatv.top_recipes[i].score, chatv.top_recipes[j].score)
          /\ CandidatePos(chatv.top_recipes[i].recipe)
                > CandidatePos(chatv.top_recipes[j].recipe)

\* C9: build_chat_prompt performs no I/O: no database query is ever issued
\* from inside build_chat_prompt.
ClaimC9 == \A e \in fetchLog : e.by # "build_chat_prompt"

\* C10: in one chat invocation, for every recipe in the prompt, the
\* ingredient list rendered in its block is the list its score and missing
\* list were computed from, whatever another process writes meanwhile.
ClaimC10 ==
    pc \in {"chat_generate", "chat_done"} =>
        \A k \in 1..Len(chatv.blocks) :
            \E e \in fetchLog :
                /\ e.by = "get_feasibility_score"
                /\ e.key = chatv.blocks[k].recipe.recipe_id
                /\ e.rows = chatv.blocks[k].ingredients

\* without a concurrent writer the rendered list is the scored list
C10WhenLoaderIdle ==
    (pc \in {"chat_generate", "chat_done"} /\ loader.pc = "insert_recipe") =>
        \A k \in 1..Len(chatv.blocks) :
            \E e \in fetchLog :
                /\ e.by = "get_feasibility_score"
                /\ e.key = chatv.blocks[k].recipe.recipe_id
                /\ e.rows = chatv.blocks[k].ingredients

\* ---- the generation call ----

GenerationCalled ==
    \E e \in fetchLog : e.by = "chat" /\ e.table = "generate_content"
\* build_chat_prompt has begun a block, or has returned its prompt
PromptBuilt ==
    \/ chatv.blocks # <<>>
    \/ \E e \in fetchLog : e.by = "build_chat_prompt"
    \/ pc = "chat_generate"
\* every candidate has been through get_feasibility_score
AllScored ==
    /\ chatv.idx > Len(chatv.candidate_recipes)
    /\ \A k \in 1..Len(chatv.candidate_recipes) :
          \E e \in fetchLog :
              /\ e.by = "get_feasibility_score"
              /\ e.key = chatv.candidate_recipes[k].recipe_id
SomeQualifies ==
    \E k \in 1..Len(chatv.scored_recipes) :
        ScoreGt(chatv.scored_recipes[k].score, Zero)
Blank(user_input) == strip(user_input) = <<>>

\* C11: in every run of chat the generation call is made, and the prompt
\* built, only after all candidates have been scored and only if at least
\* one scored above 0; a request that scored all its candidates with none
\* above 0 ends with the fixed "no suitable recipes" reply, an empty or
\* whitespace request ends with the greeting before any pantry or recipe
\* fetch, and in neither case is a prompt built or the generation call made.
ClaimC11 ==
    /\ (GenerationCalled \/ PromptBuilt)
           => (AllScored /\ SomeQualifies /\ ~Blank(chatv.user_input))
    /\ (pc = "chat_done" /\ ~Blank(chatv.user_input) /\ ~SomeQualifies)
           => (chatv.reply = NO_RECIPES /\ AllScored
               /\ ~GenerationCalled /\ ~PromptBuilt)
    /\ (pc = "chat_done" /\ Blank(chatv.user_input))
           => (chatv.reply = GREETING /\ fetchLog = {}
               /\ ~GenerationCalled /\ ~PromptBuilt)
    /\ (pc = "chat_done" /\ SomeQualifies)
           => (chatv.reply = "generated" /\ GenerationCalled)

\* a request with two candidates, both scored 0.0, answered with the fixed
\* reply
WitnessC11 ==
    /\ pc = "chat_done"
    /\ Len(chatv.candidate_recipes) >= 2
    /\ AllScored
    /\ chatv.scored_recipes = <<>>
    /\ chatv.reply = NO_RECIPES

-----------------------------------------------------------------------------
(* app.py: the /add_ingredient and /cook requests. Each request runs on a  *)
(* connection of its own (db.py, get_db_connection): its SELECT and its    *)
(* write with the commit are two steps, and other requests run in between. *)
(* Quantities are DECIMAL(10,2), kept as hundredths.                       *)

MaxRequests == 3

\* request.form: a quantity is text, numeric (in hundredths) or not
Numeric(h) == [numeric |-> TRUE, hundredths |-> h]
NotNumeric == [numeric |-> FALSE, hundredths |-> 0]
FormRequest(op, name, quantity) ==
    [op |-> op, name |-> name, quantity |-> quantity,
     unit |-> <<"g","r","a","m">>]
Salt == <<"s","a","l","t">>
RequestPool == {
    FormRequest("add_ingredient", Salt, Numeric(250)),
    FormRequest("add_ingredient", Salt, Numeric(-500)),
    FormRequest("add_ingredient", Salt, NotNumeric),
    FormRequest("cook", Salt, Numeric(300)),
    FormRequest("cook", Salt, Numeric(1000)),
    FormRequest("cook", Salt, NotNumeric) }
PantryTables == {
    <<>>,
    <<[ingredient_id |-> 1, name |-> Salt, quantity |-> 500,
       unit |-> <<"g","r","a","m">>]>> }

\* cursor.fetchone() of SELECT ... WHERE name = %s
NoRow == [found |-> FALSE]
RECURSIVE select_by_name(_, _, _)
select_by_name(rows, name, i) ==
    IF i > Len(rows) THEN NoRow
    ELSE IF rows[i].name = name
         THEN [found |-> TRUE, ingredient_id |-> rows[i].ingredient_id,
               quantity |-> rows[i].quantity, unit |-> rows[i].unit]
         ELSE select_by_name(rows, name, i + 1)

\* add_ingredient lines 203-206: float(quantity), 0.0 on ValueError
add_quantity(quantity) == IF quantity.numeric THEN quantity.hundredths ELSE 0

\* cook lines 261-264
cook_new_qty(current_qty, quantity_decimal) ==
    IF current_qty - quantity_decimal < 0 THEN 0
    ELSE current_qty - quantity_decimal

\* UPDATE ingredients SET quantity = %s WHERE ingredient_id = %s
update_quantity(rows, ingredient_id, new_qty) ==
    [i \in 1..Len(rows) |->
        IF rows[i].ingredient_id = ingredient_id
        THEN [rows[i] EXCEPT !.quantity = new_qty] ELSE rows[i]]

\* INSERT INTO ingredients(name, quantity, unit), AUTO_INCREMENT id
insert_ingredient(rows, name, quantity, unit) ==
    Append(rows, [ingredient_id |-> Len(rows) + 1, name |-> name,
                  quantity |-> quantity, unit |-> unit])

Requests == 1..Len(arg.requests)

InitPantry ==
    /\ \E table \in PantryTables,
          requests \in UNION {[1..n -> RequestPool] : n \in 1..MaxRequests} :
          /\ arg = [table |-> table, requests |-> requests]
          /\ db = [ingredients |-> table, recipes |-> <<>>,
                   recipe_ingredients |-> <<>>]
          /\ pc = [r \in 1..Len(requests) |-> "select"]
          /\ ret = [r \in 1..Len(requests) |-> NoRow]
    /\ loader = "idle" /\ chatv = NoChat /\ fetchLog = {}

\* add_ingredient lines 199-213: the form, the connection, the SELECT
AddSelect(r) ==
    /\ pc[r] = "select"
    /\ arg.requests[r].op = "add_ingredient"
    /\ ret' = [ret EXCEPT ![r] =
                  select_by_name(db.ingredients, arg.requests[r].name, 1)]
    /\ pc' = [pc EXCEPT ![r] = "write"]
    /\ UNCHANGED <<arg, db, loader, chatv, fetchLog>>

\* add_ingredient lines 215-233. With a row, line 217 adds the float of
\* line 204 to row['quantity'], which MySQLdb returns as a decimal.Decimal:
\* Decimal + float raises TypeError and the request ends uncommitted.
\* Without a row, the INSERT and the commit.
AddWrite(r) ==
    /\ pc[r] = "write"
    /\ arg.requests[r].op = "add_ingredient"
    /\ IF ret[r].found
       THEN /\ pc' = [pc EXCEPT ![r] = "TypeError"]
            /\ UNCHANGED db
       ELSE /\ db' = [db EXCEPT !.ingredients =
                         insert_ingredient(@, arg.requests[r].name,
                             add_quantity(arg.requests[r].quantity),
                             arg.requests[r].unit)]
            /\ pc' = [pc EXCEPT ![r] = "done"]
    /\ UNCHANGED <<arg, ret, loader, chatv, fetchLog>>

\* cook lines 247-259: Decimal(quantity_str) raises InvalidOperation, which
\* is no ValueError, on text that is no number; else the SELECT, and the end
\* of the request when there is no row
CookSelect(r) ==
    /\ pc[r] = "select"
    /\ arg.requests[r].op = "cook"
    /\ IF ~arg.requests[r].quantity.numeric
       THEN /\ pc' = [pc EXCEPT ![r] = "InvalidOperation"]
            /\ UNCHANGED ret
       ELSE /\ ret' = [ret EXCEPT ![r] =
                          select_by_name(db.ingredients,
                                         arg.requests[r].name, 1)]
            /\ pc' = [pc EXCEPT ![r] =
                          IF ret'[r].found THEN "write" ELSE "done"]
    /\ UNCHANGED <<arg, db, loader, chatv, fetchLog>>

\* cook lines 260-271: the clamped difference, the UPDATE, the commit
CookWrite(r) ==
    /\ pc[r] = "write"
    /\ arg.requests[r].op = "cook"
    /\ db' = [db EXCEPT !.ingredients =
                 update_quantity(@, ret[r].ingredient_id,
                     cook_new_qty(ret[r].quantity,
                                  arg.requests[r].quantity.hundredths))]
    /\ pc' = [pc EXCEPT ![r] = "done"]
    /\ UNCHANGED <<arg, ret, loader, chatv, fetchLog>>

NextPantry ==
    \/ \E r \in Requests : AddSelect(r)
    \/ \E r \in Requests : AddWrite(r)
    \/ \E r \in Requests : CookSelect(r)
    \/ \E r \in Requests : CookWrite(r)

SpecPantry == InitPantry /\ [][NextPantry]_vars

-----------------------------------------------------------------------------
(* Properties of add_ingredient and cook, checked under SpecPantry         *)

RowsNamed(rows, name) == {i \in 1..Len(rows) : rows[i].name = name}
RECURSIVE SumQuantity(_, _)
SumQuantity(rows, is) ==
    IF is = {} THEN 0
    ELSE LET i == CHOOSE i \in is : TRUE
         IN rows[i].quantity + SumQuantity(rows, is \ {i})
\* grams, in hundredths, stored under a name
StoredUnder(rows, name) == SumQuantity(rows, RowsNamed(rows, name))
RECURSIVE SubmittedFrom(_)
SubmittedFrom(r) ==
    IF r > Len(arg.requests) THEN 0
    ELSE add_quantity(arg.requests[r].quantity) + SubmittedFrom(r + 1)
AllFinished == \A r \in Requests : pc[r] \notin {"select", "write"}
\* request r ends its write in this step
Writes(r, op) ==
    pc[r] = "write" /\ pc'[r] # "write" /\ arg.requests[r].op = op

\* an add_ingredient request for a name that has a row adds the submitted
\* amount to it and creates no row; for a name with no row it creates one
AddStepC12 ==
    \A r \in Requests :
        Writes(r, "add_ingredient") =>
            LET name == arg.requests[r].name
                amount == add_quantity(arg.requests[r].quantity)
            IN IF RowsNamed(db.ingredients, name) # {}
               THEN /\ Len(db'.ingredients) = Len(db.ingredients)
                    /\ StoredUnder(db'.ingredients, name)
                          = StoredUnder(db.ingredients, name) + amount
               ELSE /\ Len(db'.ingredients) = Len(db.ingredients) + 1
                    /\ Cardinality(RowsNamed(db'.ingredients, name)) = 1

\* after add_ingredient requests for one name only, one row of that name
\* holds what was there plus all that was submitted
AddedUpC12 ==
    (AllFinished /\ \A r \in Requests :
                       /\ arg.requests[r].op = "add_ingredient"
                       /\ arg.requests[r].name = Salt) =>
        /\ Cardinality(RowsNamed(db.ingredients, Salt)) = 1
        /\ StoredUnder(db.ingredients, Salt)
              = StoredUnder(arg.table, Salt) + SubmittedFrom(1)

\* C12: an add_ingredient request for a name that already has a row
\* increases that row's quantity by exactly the submitted amount and creates
\* no new row, and a request for a name with no row creates exactly one row;
\* after any interleaving of add_ingredient requests for one name the table
\* holds one row for that name whose quantity is the sum of all submitted
\* amounts.
ClaimC12 == [][AddStepC12]_vars /\ []AddedUpC12

\* The part that holds: a request that found no row inserts exactly one row
\* with the submitted amount.
C12InsertOnly ==
    [][\A r \in Requests :
          (Writes(r, "add_ingredient") /\ ~ret[r].found) =>
              /\ Len(db'.ingredients) = Len(db.ingredients) + 1
              /\ db'.ingredients[Len(db'.ingredients)].quantity
                    = add_quantity(arg.requests[r].quantity)]_vars

NonNegative == \A i \in 1..Len(db.ingredients) : db.ingredients[i].quantity >= 0

\* a cook request for a name with a row sets the quantity to
\* max(0, current - requested); for a name with no row it changes nothing
CookStepC13 ==
    \A r \in Requests :
        /\ (pc[r] = "select" /\ pc'[r] = "done"
              /\ arg.requests[r].op = "cook") => db' = db
        /\ (Writes(r, "cook")
              /\ db.ingredients[ret[r].ingredient_id].quantity
                    = ret[r].quantity) =>
               LET i == ret[r].ingredient_id
                   current == db.ingredients[i].quantity
                   wanted == current - arg.requests[r].quantity.hundredths
               IN /\ db'.ingredients[i].quantity
                        = (IF wanted < 0 THEN 0 ELSE wanted)
                  /\ \A j \in 1..Len(db.ingredients) :
                        j # i => db'.ingredients[j] = db.ingredients[j]
                  /\ Len(db'.ingredients) = Len(db.ingredients)

\* C13: a cook request for an existing ingredient sets its quantity to
\* max(0, current - requested), a cook request for a name with no row leaves
\* the table unchanged, and after any sequence of add_ingredient and cook
\* requests every stored quantity is >= 0.
ClaimC13 == [][CookStepC13]_vars /\ []NonNegative

\* The parts that hold: what a cook request does, and no negative quantity
\* as long as no add_ingredient request submits a negative amount.
C13CookOnly == [][CookStepC13]_vars
C13AddsNonNegative ==
    (\A r \in Requests :
        arg.requests[r].op = "add_ingredient"
            => add_quantity(arg.requests[r].quantity) >= 0)
        => NonNegative

====
